---- MODULE Spec2Model ----
(***************************************************************************)
(* A model of the title/tag generation plugin: the retrying Gemini client  *)
(* (services/gemini-client.ts), the two generators, the text sanitizers,   *)
(* the validators and the orchestrating plugin commands (main.ts).         *)
(*                                                                         *)
(* Strings are sequences of one-character strings, so that trimming,       *)
(* substring search, regular-expression matching and replacement are       *)
(* computed the way the code computes them.  A fixed literal of the source *)
(* that takes no part in any search is written as one element.             *)
(***************************************************************************)
EXTENDS Naturals, Integers, Sequences, FiniteSets, TLC

VARIABLES
    cpc,        \* position of generateContent: idle, request, awaiting, sleep, returned, thrown
    attempt,    \* loop variable `attempt` of generateContent
    requests,   \* number of requestUrl calls of the current generateContent call
    inFlight,   \* number of requestUrl calls not yet answered
    received,   \* what requestUrl did for each request of the current call, in order
    lastError,  \* local `lastError` of generateContent
    outcome,    \* what generateContent returned or threw
    delays      \* the delays passed to sleep, in order

clientVars == <<cpc, attempt, requests, inFlight, received, lastError, outcome, delays>>

VARIABLES
    settings,       \* plugin.settings
    vault,          \* the paths of the other documents of the vault
    activeFile,     \* whether workspace.getActiveFile() returns a file
    file,           \* that file: basename, parent (None at the vault root), content
    ppc,            \* position of the running command: idle, reading, generating,
                    \* renaming, readingTags, updating, modifying
    cmd,            \* the command of the current or latest invocation: none, title, tags
    invocations,    \* commands invoked so far
    notices,        \* the Notice objects created by the invocation, in order
    progress,       \* the persistent progress notice: none, shown, hidden
    generatorCalls, \* calls of titleGenerator.generateTitle / tagGenerator.generateTags
    promptContent,  \* the content the generator put into its prompt
    contentRead,    \* the content the command's vault.read returned (None: not yet, or it threw)
    currentTitle,   \* local `currentTitle` of generateTitle
    newTitle,       \* local `newTitle` (None before the generator returned)
    newTags,        \* local `newTags` (None before the generator returned)
    currentTags,    \* local `currentTags` (None before getTagsFromFrontmatter returned)
    renameCalls,    \* the paths passed to fileManager.renameFile by the invocation
    modifyCalls,    \* the contents passed to vault.modify by the invocation
    lastWritten,    \* the tags the invocation wrote (None: it wrote none)
    prevWritten     \* lastWritten of the invocation before

pluginVars == <<settings, vault, activeFile, file, ppc, cmd, invocations, notices, progress,
                generatorCalls, promptContent, contentRead, currentTitle, newTitle,
                newTags, currentTags, renameCalls, modifyCalls, lastWritten, prevWritten>>

\* A call of one of the text utilities (utils/text-sanitizer.ts, utils/validator.ts)
\* or of a generator's post-processing, taken on its own.
VARIABLES
    fn,             \* the function called ("none": not yet)
    arg,            \* its first argument
    arg2,           \* its second argument, when that is a list
    num,            \* its second argument, when that is a number
    out             \* what it returned

callVars == <<fn, arg, arg2, num, out>>

\* The settings tab (ui/setting-tab.ts): the API key field and its debounced validation.
VARIABLES
    isMounted,          \* field `isMounted`
    validationTimeout,  \* field `validationTimeout`: None, or the id setTimeout returned
    validationMessage,  \* field `validationMessage`: None, or the warning element, named by
                        \* the key it warns about
    timers,             \* the validation timers that are pending: id, captured value,
                        \* the display() and the number of hide() calls they were set after
    saving,             \* the onChange handlers waiting for saveSettings(): input number,
                        \* captured value, the display() whose field they belong to
    shown,              \* display() calls so far
    hidden,             \* hide() calls so far
    typed,              \* input events so far
    timerIds,           \* setTimeout calls so far
    fired               \* the latest timer callback that ran (None: none did)

tabVars == <<isMounted, validationTimeout, validationMessage, timers, saving,
             shown, hidden, typed, timerIds, fired>>

vars == <<clientVars, pluginVars, callVars, tabVars>>

-----------------------------------------------------------------------------
(* Strings *)

\* The characters String.prototype.trim and the regular expression class \s remove.
IsSpace(ch) == ch \in {" ", "\t", "\n", "\r"}

RECURSIVE TrimStart(_)
TrimStart(s) ==
    IF s = <<>> THEN <<>>
    ELSE IF IsSpace(Head(s)) THEN TrimStart(Tail(s)) ELSE s

RECURSIVE TrimEnd(_)
TrimEnd(s) ==
    IF s = <<>> THEN <<>>
    ELSE IF IsSpace(s[Len(s)]) THEN TrimEnd(SubSeq(s, 1, Len(s) - 1)) ELSE s

Trim(s) == TrimEnd(TrimStart(s))

\* String.prototype.includes
Includes(s, needle) ==
    \E i \in 1..(Len(s) + 1) :
        /\ i + Len(needle) - 1 <= Len(s)
        /\ SubSeq(s, i, i + Len(needle) - 1) = needle

\* String.prototype.substring(0, n)
Substring0(s, n) ==
    IF n <= 0 THEN <<>> ELSE IF n >= Len(s) THEN s ELSE SubSeq(s, 1, n)

DigitChars == <<"0", "1", "2", "3", "4", "5", "6", "7", "8", "9">>

\* The decimal text of a number, as a template string writes it.
RECURSIVE Digits(_)
Digits(n) ==
    IF n < 10 THEN <<DigitChars[n + 1]>>
    ELSE Append(Digits(n \div 10), DigitChars[(n % 10) + 1])

-----------------------------------------------------------------------------
(* GeminiClient *)

\* A ceiling of one retry more.
maxRetries_OneMore == 3 + 1

maxRetries == 3
initialRetryDelay == 10000

\* An optional value: <<>> is undefined, <<v>> is v.
None == <<>>
Some(v) == <<v>>

S429 == <<"4", "2", "9">>
SResourceExhausted ==
    <<"R", "E", "S", "O", "U", "R", "C", "E", "_",
      "E", "X", "H", "A", "U", "S", "T", "E", "D">>
SUnknown == <<"U", "N", "K", "N", "O", "W", "N">>
SInternal == <<"I", "N", "T", "E", "R", "N", "A", "L">>

\* The messages of the errors the client itself creates (the Japanese literals of
\* the source are rendered in English; each is one element, no search looks into it).
ParseFailureMessage == <<"Gemini API: could not parse the response.">>
NetworkFailureMessage == <<"A network error occurred. Check the connection.">>
RateLimitedMessage ==
    <<"Gemini API rate limit: retried ">> \o Digits(maxRetries)
        \o <<" times but the server is busy. Try again later.">>

\* What one requestUrl call can do.  thrown: "none" (it resolves), "error" (it
\* throws an Error whose message is throwMsg), "other" (it throws a value that is
\* no Error).  json: the parsed body of a failure, None when it carries no error
\* object; a code of 0 and an empty status or message are absent (all falsy).
\* candidates: the candidates of a 200 body.
Response(thrown, throwMsg, status, json, text, candidates) ==
    [thrown |-> thrown, throwMsg |-> throwMsg, status |-> status,
     json |-> json, text |-> text, candidates |-> candidates]

Part(textOpt) == [text |-> textOpt]
Candidate(partsOpt) == [content |-> Some([parts |-> partsOpt])]
CandidateNoContent == [content |-> None]

OkResponse(t) ==
    Response("none", <<>>, 200, None, <<>>, Some(<<Candidate(Some(<<Part(Some(t))>>))>>))
ShapeResponse(candidates) == Response("none", <<>>, 200, None, <<>>, candidates)
FailResponse(status, code, estatus, message, text) ==
    Response("none", <<>>, status,
             Some([code |-> code, status |-> estatus, message |-> message]), text, None)
RawFailResponse(status, text) == Response("none", <<>>, status, None, text, None)
ThrowResponse(kind, msg) == Response(kind, msg, 0, None, <<>>, None)

\* 200 bodies without a usable text (gemini-client.test.ts, "no candidates" ...)
MalformedResponses ==
    { ShapeResponse(None),
      ShapeResponse(Some(<<>>)),
      ShapeResponse(Some(<<CandidateNoContent>>)),
      ShapeResponse(Some(<<Candidate(None)>>)),
      ShapeResponse(Some(<<Candidate(Some(<<>>))>>)),
      ShapeResponse(Some(<<Candidate(Some(<<Part(None)>>))>>)),
      ShapeResponse(Some(<<Candidate(Some(<<Part(Some(<<>>))>>))>>)) }

RateLimitResponses ==
    { FailResponse(429, 429, SResourceExhausted, <<"q">>, <<"{", "}">>),
      FailResponse(429, 429, <<>>, <<>>, <<"b", "u", "s", "y">>),
      FailResponse(503, 8, SResourceExhausted, <<"q">>, <<"{", "}">>),
      RawFailResponse(429, <<"b", "u", "s", "y">>) }

\* Failures that are no rate-limit condition; the last three mention one in their text.
OtherFailResponses ==
    { FailResponse(500, 500, SInternal, <<"x">>, <<"{", "}">>),
      FailResponse(400, 0, <<>>, <<>>, <<"b", "a", "d">>),
      RawFailResponse(404, <<"n", "o">>),
      FailResponse(500, 500, SInternal, <<"u", "p", " ">> \o S429, <<"{", "}">>),
      FailResponse(400, 400, SInternal, <<"n", "o", " ">> \o SResourceExhausted, <<"{", "}">>),
      RawFailResponse(502, <<"i", "d", " ">> \o <<"1">> \o S429 \o <<"0">>) }

TransportFailures ==
    { ThrowResponse("error", <<"n", "e", "t">>),
      ThrowResponse("error", <<"E", "R", "R", " ">> \o S429),
      ThrowResponse("other", <<>>) }

\* The texts the remote service answers with in the client's own specification.
ClientTexts == { <<" ", "A", "b", "\n">>, <<"o", "k">>, <<" ">> }

ClientResponses ==
    {OkResponse(t) : t \in ClientTexts} \cup MalformedResponses
        \cup RateLimitResponses \cup OtherFailResponses \cup TransportFailures

\* errorDetails?.error?.message || response.text, and the two beside it
ErrorMessageOf(resp) ==
    IF resp.json # None /\ resp.json[1].message # <<>>
    THEN resp.json[1].message ELSE resp.text
ErrorCodeOf(resp) ==
    IF resp.json # None /\ resp.json[1].code # 0
    THEN resp.json[1].code ELSE resp.status
ErrorStatusOf(resp) ==
    IF resp.json # None /\ resp.json[1].status # <<>>
    THEN resp.json[1].status ELSE SUnknown

HttpErrorMessage(resp) ==
    <<"Gemini API error [">> \o Digits(ErrorCodeOf(resp)) \o <<" ">>
        \o ErrorStatusOf(resp) \o <<"]: ">> \o ErrorMessageOf(resp)

\* An extraction that accepts an empty text (?? in place of ||).
extractText_KeepEmpty(resp) ==
    LET cands == resp.candidates
        cand == IF cands = None \/ cands[1] = <<>> THEN None ELSE Some(cands[1][1])
        content == IF cand = None THEN None ELSE cand[1].content
        parts == IF content = None THEN None ELSE content[1].parts
        part == IF parts = None \/ parts[1] = <<>> THEN None ELSE Some(parts[1][1])
    IN  IF part = None THEN None ELSE part[1].text

\* extractText: response.candidates?.[0]?.content?.parts?.[0]?.text || null
extractText(resp) ==
    LET cands == resp.candidates
        cand == IF cands = None \/ cands[1] = <<>> THEN None ELSE Some(cands[1][1])
        content == IF cand = None THEN None ELSE cand[1].content
        parts == IF content = None THEN None ELSE content[1].parts
        part == IF parts = None \/ parts[1] = <<>> THEN None ELSE Some(parts[1][1])
        text == IF part = None THEN None ELSE part[1].text
    IN  IF text = None \/ text[1] = <<>> THEN None ELSE text

\* A value generateContent or generateContentInternal returns or throws.
\* kind: "text" (returned), "error" (thrown); isError: thrown value instanceof Error.
Returned(t) == [kind |-> "text", val |-> t, isError |-> FALSE]
Thrown(msg) == [kind |-> "error", val |-> msg, isError |-> TRUE]
NoOutcome == [kind |-> "none", val |-> <<>>, isError |-> FALSE]

\* generateContentInternal, given what requestUrl did
\* A catch block that replaces every thrown value by the generic error.
generateContentInternal_AllGeneric(resp) ==
    IF resp.thrown # "none" THEN Thrown(NetworkFailureMessage)
    ELSE IF resp.status # 200 THEN Thrown(HttpErrorMessage(resp))
    ELSE LET text == extractText(resp)
         IN  IF text = None THEN Thrown(ParseFailureMessage)
             ELSE Returned(Trim(text[1]))

generateContentInternal(resp) ==
    IF resp.thrown = "error" THEN Thrown(resp.throwMsg)
    ELSE IF resp.thrown = "other" THEN Thrown(NetworkFailureMessage)
    ELSE IF resp.status # 200 THEN Thrown(HttpErrorMessage(resp))
    ELSE LET text == extractText(resp)
         IN  IF text = None THEN Thrown(ParseFailureMessage)
             ELSE Returned(Trim(text[1]))

\* A classification that knows the numeric code only.
is429Error_CodeOnly(message) == Includes(message, S429)

\* error.message.includes('429') || error.message.includes('RESOURCE_EXHAUSTED')
is429Error(message) ==
    Includes(message, S429) \/ Includes(message, SResourceExhausted)

\* this.initialRetryDelay * Math.pow(2, attempt)
RetryDelay(a) == initialRetryDelay * (2 ^ a)

\* A catch block that allows one retry more than maxRetries.
catchBranch_OneMore(err, a) ==
    IF err.isError
    THEN IF is429Error(err.val) /\ a <= maxRetries THEN "retry"
         ELSE IF ~is429Error(err.val) THEN "rethrow"
         ELSE "rateLimited"
    ELSE "rethrow"

\* The catch block of generateContent, for a value thrown in iteration a:
\* "retry" (sleep, continue), "rethrow" (throw error), "rateLimited" (the new Error).
catchBranch(err, a) ==
    IF err.isError
    THEN IF is429Error(err.val) /\ a < maxRetries THEN "retry"
         ELSE IF ~is429Error(err.val) THEN "rethrow"
         ELSE "rateLimited"
    ELSE "rethrow"

(* generateContent: the entry, one loop iteration split at its awaits *)

\* The call starts: lastError = null, attempt = 0.
StartGenerateContent ==
    /\ cpc' = "request"
    /\ attempt' = 0
    /\ requests' = 0
    /\ inFlight' = 0
    /\ received' = <<>>
    /\ lastError' = None
    /\ outcome' = NoOutcome
    /\ delays' = <<>>

\* generateContentInternal is entered and awaits requestUrl.
SendRequest ==
    /\ cpc = "request"
    /\ cpc' = "awaiting"
    /\ requests' = requests + 1
    /\ inFlight' = inFlight + 1
    /\ UNCHANGED <<attempt, received, lastError, outcome, delays>>

\* requestUrl settles; the rest of the iteration runs up to the next await.
ReceiveResponse(resp) ==
    /\ cpc = "awaiting"
    /\ inFlight' = inFlight - 1
    /\ received' = Append(received, resp)
    /\ LET r == generateContentInternal(resp)
       IN  IF r.kind = "text"
           THEN /\ cpc' = "returned"
                /\ outcome' = r
                /\ UNCHANGED <<lastError, delays>>
           ELSE /\ lastError' = IF r.isError THEN Some(r) ELSE lastError
                /\ IF catchBranch(r, attempt) = "retry"
                   THEN /\ cpc' = "sleep"
                        /\ delays' = Append(delays, RetryDelay(attempt))
                        /\ UNCHANGED outcome
                   ELSE /\ cpc' = "thrown"
                        /\ outcome' = IF catchBranch(r, attempt) = "rateLimited"
                                      THEN Thrown(RateLimitedMessage) ELSE r
                        /\ UNCHANGED delays
    /\ UNCHANGED <<attempt, requests>>

\* The sleep's timer fires: continue, attempt++, the loop test, and after the
\* loop `throw lastError || new Error(...)`.
WakeUp ==
    /\ cpc = "sleep"
    /\ attempt' = attempt + 1
    /\ IF attempt + 1 <= maxRetries
       THEN /\ cpc' = "request"
            /\ UNCHANGED outcome
       ELSE /\ cpc' = "thrown"
            /\ outcome' = IF lastError # None THEN lastError[1]
                          ELSE Thrown(<<"The request failed.">>)
    /\ UNCHANGED <<requests, inFlight, received, lastError, delays>>


(* The client on its own: a caller invokes generateContent again and again. *)

ClientIdle ==
    /\ cpc = "idle"
    /\ attempt = 0
    /\ requests = 0
    /\ inFlight = 0
    /\ received = <<>>
    /\ lastError = None
    /\ outcome = NoOutcome
    /\ delays = <<>>

CallGenerateContent ==
    /\ cpc \in {"idle", "returned", "thrown"}
    /\ StartGenerateContent

ClientNext ==
    \/ CallGenerateContent /\ UNCHANGED <<pluginVars, callVars, tabVars>>
    \/ SendRequest /\ UNCHANGED <<pluginVars, callVars, tabVars>>
    \/ \E resp \in ClientResponses : ReceiveResponse(resp) /\ UNCHANGED <<pluginVars, callVars, tabVars>>
    \/ WakeUp /\ UNCHANGED <<pluginVars, callVars, tabVars>>

\* No command runs: the plugin's state is fixed.
\* The settings tab before it is first displayed.
TabClosed ==
    /\ isMounted = FALSE
    /\ validationTimeout = None
    /\ validationMessage = None
    /\ timers = {}
    /\ saving = {}
    /\ shown = 0
    /\ hidden = 0
    /\ typed = 0
    /\ timerIds = 0
    /\ fired = None

PluginAtRest ==
    /\ TabClosed
    /\ settings = [apiKey |-> <<>>, enableNotifications |-> TRUE,
                   maxTitleLength |-> 40, maxContentLength |-> 100]
    /\ vault = {}
    /\ activeFile = FALSE
    /\ file = [basename |-> <<>>, parent |-> None, content |-> <<>>]
    /\ ppc = "idle"
    /\ cmd = "none"
    /\ invocations = 0
    /\ notices = <<>>
    /\ progress = "none"
    /\ generatorCalls = 0
    /\ promptContent = <<>>
    /\ contentRead = None
    /\ currentTitle = <<>>
    /\ newTitle = None
    /\ newTags = None
    /\ currentTags = None
    /\ renameCalls = <<>>
    /\ modifyCalls = <<>>
    /\ lastWritten = None
    /\ prevWritten = None

\* No utility is called on its own.
NoCall ==
    /\ fn = "none"
    /\ arg = <<>>
    /\ arg2 = <<>>
    /\ num = 0
    /\ out = <<>>

ClientInit == ClientIdle /\ PluginAtRest /\ NoCall

SpecClient == ClientInit /\ [][ClientNext]_vars

-----------------------------------------------------------------------------
(* Properties of GeminiClient.generateContent, checked under SpecClient *)

\* A rate-limit condition: a failure response whose reported code is 429 or whose
\* reported status is RESOURCE_EXHAUSTED.
IsRateLimitCondition(resp) ==
    /\ resp.thrown = "none"
    /\ resp.status # 200
    /\ \/ (IF resp.json # None /\ resp.json[1].code # 0
           THEN resp.json[1].code ELSE resp.status) = 429
       \/ (resp.json # None /\ resp.json[1].status = SResourceExhausted)

\* Any other failure response.
IsOtherFailure(resp) ==
    resp.thrown = "none" /\ resp.status # 200 /\ ~IsRateLimitCondition(resp)

\* A 200 response whose first candidate's first part carries a non-empty text.
HasText(resp) ==
    /\ resp.thrown = "none"
    /\ resp.status = 200
    /\ resp.candidates # None /\ resp.candidates[1] # <<>>
    /\ resp.candidates[1][1].content # None
    /\ resp.candidates[1][1].content[1].parts # None
    /\ resp.candidates[1][1].content[1].parts[1] # <<>>
    /\ resp.candidates[1][1].content[1].parts[1][1].text # None
    /\ resp.candidates[1][1].content[1].parts[1][1].text[1] # <<>>
TextOf(resp) == resp.candidates[1][1].content[1].parts[1][1].text[1]

\* A 200 response without such a text.
IsMalformed(resp) == resp.thrown = "none" /\ resp.status = 200 /\ ~HasText(resp)

AllRateLimited(rs) == \A i \in 1..Len(rs) : IsRateLimitCondition(rs[i])
CallRunning == cpc \in {"request", "awaiting", "sleep"}
Last(rs) == rs[Len(rs)]
ButLast(rs) == SubSeq(rs, 1, Len(rs) - 1)

\* C1: when the first k requests (k in 0..3) of a call fail with a rate-limit
\* condition the call goes on to request k+1, and when that request succeeds
\* exactly k+1 requests have been made and the call has returned the trimmed
\* text of the successful response.
C1_RetryThenSuccess ==
    /\ (cpc # "idle" /\ AllRateLimited(received) /\ Len(received) <= maxRetries)
          => (CallRunning /\ requests \in {Len(received), Len(received) + 1})
    /\ (received # <<>> /\ AllRateLimited(ButLast(received))
            /\ Len(received) <= maxRetries + 1 /\ HasText(Last(received)))
          => /\ cpc = "returned"
             /\ requests = Len(received)
             /\ outcome = Returned(Trim(TextOf(Last(received))))

\* C1 witness: two rate-limit failures, then a success, three requests.
C1_Witness ==
    /\ Len(received) = 3
    /\ AllRateLimited(ButLast(received))
    /\ HasText(Last(received))
    /\ cpc = "returned" /\ requests = 3

\* C2 (as the specification states it): a failure that is no rate-limit
\* condition ends the call at once, with that error and no further request.
C2_OtherFailureNotRetried ==
    (received # <<>> /\ IsOtherFailure(Last(received)))
        => /\ cpc = "thrown"
           /\ requests = Len(received)
           /\ outcome = Thrown(HttpErrorMessage(Last(received)))

\* C3: when every request fails with a rate-limit condition, three failures
\* lead to the fourth request, and after the fourth failure exactly 4 requests
\* have been made and the call has thrown the rate-limited error, which is not
\* the remote error of the last response.
C3_RateLimitExhausted ==
    (cpc # "idle" /\ AllRateLimited(received))
        => /\ Len(received) <= maxRetries + 1
           /\ Len(received) = maxRetries => CallRunning
           /\ Len(received) = maxRetries + 1
                 => /\ cpc = "thrown"
                    /\ requests = maxRetries + 1
                    /\ outcome = Thrown(RateLimitedMessage)
                    /\ outcome.val # HttpErrorMessage(Last(received))

\* C3 witness: four rate-limit failures and the call has thrown.
C3_Witness ==
    Len(received) = 4 /\ AllRateLimited(received) /\ cpc = "thrown" /\ requests = 4

\* C4: a 200 response without a non-empty text makes the call throw the parse
\* error; the failing request is the last one, and the parse error is neither the
\* error of an HTTP failure nor the rate-limited error.
C4_ParseFailure ==
    (received # <<>> /\ IsMalformed(Last(received)))
        => /\ cpc = "thrown"
           /\ requests = Len(received)
           /\ outcome = Thrown(ParseFailureMessage)
           /\ outcome.val # RateLimitedMessage
           /\ \A resp \in RateLimitResponses \cup OtherFailResponses :
                 outcome.val # HttpErrorMessage(resp)

\* C4 witness: a malformed 200 answer to a retried request.
C4_Witness ==
    /\ Len(received) = 2
    /\ IsMalformed(Last(received))
    /\ cpc = "thrown"

-----------------------------------------------------------------------------
(* utils/text-sanitizer.ts and utils/validator.ts *)

UpperChars == <<"A", "B", "C", "D", "E", "F", "G", "H", "I", "J", "K", "L", "M",
                "N", "O", "P", "Q", "R", "S", "T", "U", "V", "W", "X", "Y", "Z">>
LowerChars == <<"a", "b", "c", "d", "e", "f", "g", "h", "i", "j", "k", "l", "m",
                "n", "o", "p", "q", "r", "s", "t", "u", "v", "w", "x", "y", "z">>
Range(f) == {f[i] : i \in DOMAIN f}

\* String.prototype.toLowerCase, character by character
LowerChar(ch) ==
    IF ch \in Range(UpperChars)
    THEN LowerChars[CHOOSE i \in DOMAIN UpperChars : UpperChars[i] = ch]
    ELSE ch
ToLowerCase(s) == [i \in DOMAIN s |-> LowerChar(s[i])]

\* [-A-Za-z0-9_]
IsKeyChar(ch) ==
    ch \in Range(UpperChars) \cup Range(LowerChars) \cup Range(DigitChars) \cup {"-", "_"}

\* validateApiKey: non-blank and /^AI[-A-Za-z0-9_]{18,}$/
validateApiKey(apiKey) ==
    /\ apiKey # <<>>
    /\ Len(Trim(apiKey)) # 0
    /\ Len(apiKey) >= 20
    /\ apiKey[1] = "A" /\ apiKey[2] = "I"
    /\ \A i \in 3..Len(apiKey) : IsKeyChar(apiKey[i])

\* A check of the length alone, which takes whitespace for content.
validateContent_NoTrim(content) == Len(content) > 0

\* validateContent
validateContent(content) ==
    IF content = <<>> THEN FALSE ELSE Len(Trim(content)) > 0

\* The second loop of arraysEqual over arr2[i..], with the counts left.
RECURSIVE arraysEqualRest(_, _, _)
arraysEqualRest(counts, arr2, i) ==
    IF i > Len(arr2) THEN TRUE
    ELSE LET item == arr2[i]
             count == IF item \in DOMAIN counts THEN counts[item] ELSE 0
         IN  IF count = 0 THEN FALSE
             ELSE arraysEqualRest([counts EXCEPT ![item] = count - 1], arr2, i + 1)

\* An equality of the sets of elements, blind to repetition.
arraysEqual_AsSets(arr1, arr2) ==
    Len(arr1) = Len(arr2) /\ Range(arr1) = Range(arr2)

\* An equality that minds the order of the elements.
arraysEqual_Ordered(arr1, arr2) == arr1 = arr2

\* arraysEqual: equal lengths, then occurrence counts of arr1 consumed by arr2
arraysEqual(arr1, arr2) ==
    IF Len(arr1) # Len(arr2) THEN FALSE
    ELSE LET counts == [x \in Range(arr1) |->
                          Cardinality({i \in DOMAIN arr1 : arr1[i] = x})]
         IN  arraysEqualRest(counts, arr2, 1)

\* A character class that lacks the vertical bar.
IsReservedChar_NoBar(ch) == ch \in {"/", "\\", ":", "*", "?", "\"", "<", ">"}

\* /[\/\\:*?"<>|]/
IsReservedChar(ch) == ch \in {"/", "\\", ":", "*", "?", "\"", "<", ">", "|"}

\* replace(/\s+/g, sep): every run of whitespace becomes sep
RECURSIVE CollapseSpace(_, _)
CollapseSpace(s, sep) ==
    IF s = <<>> THEN <<>>
    ELSE IF IsSpace(Head(s))
         THEN <<sep>> \o CollapseSpace(TrimStart(s), sep)
         ELSE <<Head(s)>> \o CollapseSpace(Tail(s), sep)

\* A sanitizer that forgets the trim after the replacements.
sanitizeTitle_NoFinalTrim(title) ==
    LET trimmed == Trim(title)
        replaced == [i \in DOMAIN trimmed |->
                        IF IsReservedChar(trimmed[i]) THEN " " ELSE trimmed[i]]
    IN  CollapseSpace(replaced, " ")

\* sanitizeTitle
sanitizeTitle(title) ==
    LET trimmed == Trim(title)
        replaced == [i \in DOMAIN trimmed |->
                        IF IsReservedChar(trimmed[i]) THEN " " ELSE trimmed[i]]
    IN  Trim(CollapseSpace(replaced, " "))

\* String.prototype.split(sep) for a one-character separator
RECURSIVE SplitOn(_, _)
SplitOn(s, sep) ==
    IF \A i \in DOMAIN s : s[i] # sep
    THEN <<s>>
    ELSE LET k == CHOOSE i \in DOMAIN s :
                      s[i] = sep /\ \A j \in 1..(i - 1) : s[j] # sep
         IN  <<SubSeq(s, 1, k - 1)>> \o SplitOn(SubSeq(s, k + 1, Len(s)), sep)

\* The map callback of normalizeTags
normalizeTag(tag) ==
    LET trimmed == Trim(tag)
        noHash == IF trimmed # <<>> /\ Head(trimmed) = "#" THEN Tail(trimmed) ELSE trimmed
    IN  CollapseSpace(ToLowerCase(noHash), "-")

\* A removal of duplicates that keeps the last occurrence of each element.
RECURSIVE Dedupe_KeepLast(_)
Dedupe_KeepLast(list) ==
    IF list = <<>> THEN <<>>
    ELSE IF \E i \in 2..Len(list) : list[i] = Head(list)
         THEN Dedupe_KeepLast(Tail(list))
         ELSE <<Head(list)>> \o Dedupe_KeepLast(Tail(list))

\* [...new Set(list)]: first occurrences, in order
RECURSIVE Dedupe(_)
Dedupe(list) ==
    IF list = <<>> THEN <<>>
    ELSE LET init == Dedupe(SubSeq(list, 1, Len(list) - 1))
             last == list[Len(list)]
         IN  IF last \in Range(init) THEN init ELSE Append(init, last)

\* Array.prototype.filter(tag => tag.length > 0)
RECURSIVE NonEmpty(_)
NonEmpty(list) ==
    IF list = <<>> THEN <<>>
    ELSE IF Len(Head(list)) > 0 THEN <<Head(list)>> \o NonEmpty(Tail(list))
         ELSE NonEmpty(Tail(list))

\* normalizeTags, for a list and for a comma-separated string
normalizeTagList(tagArray) ==
    Dedupe(NonEmpty([i \in DOMAIN tagArray |-> normalizeTag(tagArray[i])]))
normalizeTags(tags) == normalizeTagList(SplitOn(tags, ","))

\* A truncation by slice(0, maxLength), which counts a negative length from the end.
truncateContent_Slice(content, maxLength) ==
    IF Len(content) <= maxLength THEN content
    ELSE IF maxLength >= 0 THEN SubSeq(content, 1, maxLength)
    ELSE IF Len(content) + maxLength > 0 THEN SubSeq(content, 1, Len(content) + maxLength)
    ELSE <<>>

\* truncateContent
truncateContent(content, maxLength) ==
    IF Len(content) <= maxLength THEN content ELSE Substring0(content, maxLength)

-----------------------------------------------------------------------------
(* The frontmatter regular expressions and String.prototype.replace *)

Max(S) == CHOOSE x \in S : \A y \in S : y <= x
Min(S) == CHOOSE x \in S : \A y \in S : x <= y

Dashes == <<"-", "-", "-">>
NL == <<"\n">>
DashesAt(c, p) == p >= 1 /\ p + 2 <= Len(c) /\ SubSeq(c, p, p + 2) = Dashes
AllSpace(c, a, b) == \A k \in a..b : IsSpace(c[k])

\* ^---\s*\n : the positions i at which \s* can stop (it consumed c[4..i]) with a
\* newline next.
OpenEnds(c) ==
    IF DashesAt(c, 1)
    THEN {i \in 3..(Len(c) - 1) : AllSpace(c, 4, i) /\ c[i + 1] = "\n"}
    ELSE {}

\* The ends of \s*\n after a closing --- that ends at position d.
TailEnds(c, d) ==
    {j \in (d + 1)..Len(c) : AllSpace(c, d + 1, j - 1) /\ c[j] = "\n"}

\* The closing part of the expression matches with the group ending at e:
\* \n---\s*\n when withNewline (text-sanitizer.ts:78, main.ts:220), \n--- otherwise
\* (main.ts:195).
CloseAt(c, e, withNewline) ==
    /\ e + 4 <= Len(c)
    /\ c[e + 1] = "\n"
    /\ DashesAt(c, e + 2)
    /\ withNewline => TailEnds(c, e + 4) # {}

NoMatch == [found |-> FALSE, group |-> <<>>, close |-> 0, end |-> 0]

\* content.match(frontmatterRegex): a backtracking match anchored at the start.
\* The greedy \s* stops as late as the rest allows, the lazy group ends as early
\* as it can, the greedy tail \s*\n ends as late as it can.  close is the index of
\* the last character of the closing ---, end that of the last character matched.
FrontmatterMatch(c, withNewline) ==
    LET opens == {i \in OpenEnds(c) :
                     \E e \in (i + 1)..Len(c) : CloseAt(c, e, withNewline)}
    IN  IF opens = {} THEN NoMatch
        ELSE LET i == Max(opens)
                 e == Min({x \in (i + 1)..Len(c) : CloseAt(c, x, withNewline)})
             IN  [found |-> TRUE,
                  group |-> SubSeq(c, i + 2, e),
                  close |-> e + 4,
                  end |-> IF withNewline THEN Max(TailEnds(c, e + 4)) ELSE e + 4]

\* The two characters that have no string literal of their own.
Backtick == "BACKTICK"
Apostrophe == "APOSTROPHE"

\* GetSubstitution of String.prototype.replace for a pattern with one capture
\* group matched at the start of the string: $$, $&, $` (empty here), $', $1, $01.
RECURSIVE GetSubstitution(_, _, _, _)
GetSubstitution(repl, matched, group, after) ==
    IF repl = <<>> THEN <<>>
    ELSE IF Head(repl) # "$" \/ Len(repl) < 2
    THEN <<Head(repl)>> \o GetSubstitution(Tail(repl), matched, group, after)
    ELSE LET rest2 == SubSeq(repl, 3, Len(repl))
             rest3 == SubSeq(repl, 4, Len(repl))
         IN  CASE repl[2] = "$" -> <<"$">> \o GetSubstitution(rest2, matched, group, after)
               [] repl[2] = "&" -> matched \o GetSubstitution(rest2, matched, group, after)
               [] repl[2] = Backtick -> GetSubstitution(rest2, matched, group, after)
               [] repl[2] = Apostrophe -> after \o GetSubstitution(rest2, matched, group, after)
               [] repl[2] = "1" -> group \o GetSubstitution(rest2, matched, group, after)
               [] repl[2] = "0" /\ Len(repl) >= 3 /\ repl[3] = "1" ->
                      group \o GetSubstitution(rest3, matched, group, after)
               [] OTHER -> <<"$">> \o GetSubstitution(Tail(repl), matched, group, after)

\* content.replace(frontmatterRegex, repl), frontmatterRegex with the trailing \s*\n
ReplaceFrontmatter(content, repl) ==
    LET m == FrontmatterMatch(content, TRUE)
        after == SubSeq(content, m.end + 1, Len(content))
    IN  IF ~m.found THEN content
        ELSE GetSubstitution(repl, SubSeq(content, 1, m.end), m.group, after) \o after

\* A removal whose expression asks for no newline after the closing delimiter.
removeFrontmatter_NoNewlineNeeded(content) ==
    LET m == FrontmatterMatch(content, FALSE)
    IN  Trim(IF m.found THEN SubSeq(content, m.end + 1, Len(content)) ELSE content)

\* removeFrontmatter
removeFrontmatter(content) == Trim(ReplaceFrontmatter(content, <<>>))

-----------------------------------------------------------------------------
(* parseYaml and stringifyYaml (obsidian), for the YAML the documents of this  *)
(* model hold: a block mapping of plain scalars and of block sequences of      *)
(* plain scalars.  A parsed mapping is the sequence of its fields in order.    *)

STags == <<"t", "a", "g", "s">>
SNull == <<"n", "u", "l", "l">>
SEmptyList == <<"[", "]">>
ItemIndent == <<" ", " ", "-", " ">>

StrField(key, str) == [key |-> key, vkind |-> "str", str |-> str, list |-> <<>>]
ListField(key, list) == [key |-> key, vkind |-> "list", str |-> <<>>, list |-> list]
NullField(key) == [key |-> key, vkind |-> "null", str |-> <<>>, list |-> <<>>]

\* A scalar that YAML reads back as the same string when written plain.
IsPlainScalar(v) ==
    /\ v # <<>>
    /\ ~Includes(v, <<":", " ">>)
    /\ v[Len(v)] # ":"
    /\ v[1] \notin {"[", "]", "{", "}", "#", "&", "*", "!", "|", ">", "\"", "%", "@", ","}
    /\ ~(v[1] = "-" /\ (Len(v) = 1 \/ v[2] = " "))
    /\ ~Includes(v, <<" ", "#">>)
    /\ \A i \in DOMAIN v : v[i] \notin {"\n", "\t", "\r"}
    /\ v # SNull

\* The length of the key at the start of a line (0: the line starts with no key).
KeyLen(line) ==
    IF line = <<>> \/ ~IsKeyChar(line[1]) \/ line[1] = "-" THEN 0
    ELSE Max({n \in 1..Len(line) : \A k \in 1..n : IsKeyChar(line[k])})

\* One line of a block: blank, a sequence item, "key:" or "key: value"; bad otherwise.
ParseLine(line) ==
    LET n == KeyLen(line)
        rest == SubSeq(line, n + 2, Len(line))
        value == Trim(rest)
    IN  IF AllSpace(line, 1, Len(line)) THEN [kind |-> "blank", field |-> NullField(<<>>)]
        ELSE IF Len(line) > 4 /\ SubSeq(line, 1, 4) = ItemIndent
                  /\ IsPlainScalar(Trim(SubSeq(line, 5, Len(line))))
        THEN [kind |-> "item", field |-> StrField(<<>>, Trim(SubSeq(line, 5, Len(line))))]
        ELSE IF n = 0 \/ n = Len(line) \/ line[n + 1] # ":" THEN [kind |-> "bad", field |-> NullField(<<>>)]
        ELSE IF value = <<>> \/ (rest[1] = " " /\ value = SNull)
        THEN [kind |-> "field", field |-> NullField(SubSeq(line, 1, n))]
        ELSE IF rest[1] = " " /\ value = SEmptyList
        THEN [kind |-> "field", field |-> ListField(SubSeq(line, 1, n), <<>>)]
        ELSE IF rest[1] = " " /\ IsPlainScalar(value)
        THEN [kind |-> "field", field |-> StrField(SubSeq(line, 1, n), value)]
        ELSE [kind |-> "bad", field |-> NullField(<<>>)]

YamlError == [ok |-> FALSE, fields |-> <<>>]

\* The lines from i on, after the fields read so far; open: the last field may
\* still take sequence items.
RECURSIVE ParseLines(_, _, _, _)
ParseLines(lines, i, fields, open) ==
    IF i > Len(lines) THEN [ok |-> TRUE, fields |-> fields]
    ELSE LET p == ParseLine(lines[i])
             n == Len(fields)
         IN  CASE p.kind = "blank" -> ParseLines(lines, i + 1, fields, open)
               [] p.kind = "bad" -> YamlError
               [] p.kind = "item" ->
                      IF ~open THEN YamlError
                      ELSE ParseLines(lines, i + 1,
                               [fields EXCEPT ![n] =
                                   ListField(fields[n].key, Append(fields[n].list, p.field.str))],
                               TRUE)
               [] OTHER ->
                      IF \E k \in 1..n : fields[k].key = p.field.key THEN YamlError
                      ELSE ParseLines(lines, i + 1, Append(fields, p.field),
                                      p.field.vkind = "null")

\* parseYaml: ok is FALSE when it throws; no field at all is null (falsy).
parseYaml(text) == ParseLines(SplitOn(text, "\n"), 1, <<>>, FALSE)

RECURSIVE StringifyItems(_)
StringifyItems(list) ==
    IF list = <<>> THEN <<>>
    ELSE ItemIndent \o Head(list) \o NL \o StringifyItems(Tail(list))

StringifyField(f) ==
    CASE f.vkind = "str" -> f.key \o <<":", " ">> \o f.str \o NL
      [] f.vkind = "null" -> f.key \o <<":", " ">> \o SNull \o NL
      [] f.list = <<>> -> f.key \o <<":", " ">> \o SEmptyList \o NL
      [] OTHER -> f.key \o <<":">> \o NL \o StringifyItems(f.list)

\* stringifyYaml
RECURSIVE stringifyYaml(_)
stringifyYaml(fields) ==
    IF fields = <<>> THEN <<"{", "}">> \o NL
    ELSE IF Len(fields) = 1 THEN StringifyField(fields[1])
    ELSE StringifyField(Head(fields)) \o stringifyYaml(Tail(fields))

HasKey(fields, key) == \E k \in DOMAIN fields : fields[k].key = key
FieldOf(fields, key) == fields[CHOOSE k \in DOMAIN fields : fields[k].key = key]

\* frontmatter.tags = tags: an own property keeps its place, a new one goes last
SetTags(fields, tags) ==
    IF HasKey(fields, STags)
    THEN [k \in DOMAIN fields |->
             IF fields[k].key = STags THEN ListField(STags, tags) ELSE fields[k]]
    ELSE Append(fields, ListField(STags, tags))

-----------------------------------------------------------------------------
(* NoteNamerPlugin: the metadata merge (main.ts) *)

\* getTagsFromFrontmatter, given the content vault.read returned
getTagsFromFrontmatter(content) ==
    LET m == FrontmatterMatch(content, FALSE)
        y == parseYaml(m.group)
    IN  IF ~m.found THEN <<>>
        ELSE IF ~y.ok \/ y.fields = <<>> \/ ~HasKey(y.fields, STags) THEN <<>>
        ELSE LET t == FieldOf(y.fields, STags)
             IN  CASE t.vkind = "list" -> t.list
                   [] t.vkind = "str" -> <<t.str>>
                   [] OTHER -> <<>>

FrontmatterBlock(yaml) == Dashes \o NL \o Trim(yaml) \o NL \o Dashes \o NL

\* A merge whose fallback keeps the whole document, the block it could not parse
\* included, behind the fresh block.
updateTagsInFrontmatter_KeepBlock(content, tags) ==
    LET m == FrontmatterMatch(content, TRUE)
        y == parseYaml(m.group)
    IN  IF m.found /\ y.ok
        THEN ReplaceFrontmatter(content, FrontmatterBlock(stringifyYaml(SetTags(y.fields, tags))))
        ELSE FrontmatterBlock(stringifyYaml(<<ListField(STags, tags)>>)) \o content

\* updateTagsInFrontmatter: the content it passes to vault.modify
updateTagsInFrontmatter(content, tags) ==
    LET m == FrontmatterMatch(content, TRUE)
        y == parseYaml(m.group)
    IN  IF m.found
        THEN IF y.ok
             THEN ReplaceFrontmatter(content, FrontmatterBlock(stringifyYaml(SetTags(y.fields, tags))))
             ELSE FrontmatterBlock(stringifyYaml(<<ListField(STags, tags)>>))
                      \o ReplaceFrontmatter(content, <<>>)
        ELSE FrontmatterBlock(stringifyYaml(<<ListField(STags, tags)>>)) \o content

-----------------------------------------------------------------------------
(* The generators' post-processing (services/title-generator.ts, tag-generator.ts) *)

\* A truncation that cuts and does not trim.
TitleFromResponse_NoTrim(generatedTitle, maxTitleLength) ==
    Substring0(sanitizeTitle(generatedTitle), maxTitleLength)

\* TitleGenerator.generateTitle, after generateContent returned generatedTitle
TitleFromResponse(generatedTitle, maxTitleLength) ==
    LET sanitized == sanitizeTitle(generatedTitle)
    IN  IF Len(sanitized) > maxTitleLength
        THEN Trim(Substring0(sanitized, maxTitleLength))
        ELSE sanitized

\* A pipeline that truncates before it removes the frontmatter.
TagPromptContent_TruncateFirst(content, maxContentLength) ==
    removeFrontmatter(truncateContent(content, maxContentLength))

\* TagGenerator.generateTags, before generateContent: the content of its prompt
TagPromptContent(content, maxContentLength) ==
    truncateContent(removeFrontmatter(content), maxContentLength)

\* TagGenerator.generateTags, after generateContent returned generatedTags
TagsFromResponse(generatedTags) == normalizeTags(generatedTags)

-----------------------------------------------------------------------------
(* NoteNamerPlugin: the commands generateTitle and generateTags (main.ts) *)

\* A Notice: kind "progress" (timeout 0, persistent), "error" (timeout 5000, from
\* showError), "info" (no timeout, from showNotification).
NoticeOf(kind, message) == [kind |-> kind, message |-> message]

\* The messages (the Japanese literals of the source rendered in English).
MsgBadKey == <<"GEMINI_API_KEY is not set or is invalid. Enter the API key in the settings.">>
MsgNoFile == <<"There is no active file. Open a note and run again.">>
MsgEmpty == <<"The body is empty. Enter some text and run again.">>
MsgTitleProgress == <<"Generating the title...">>
MsgTagProgress == <<"Generating the tags...">>
MsgTitleFailed == <<"Title generation failed.">>
MsgTagFailed == <<"Tag generation failed.">>
MsgTitleCurrent(title) == <<"The title is already up to date: ">> \o title
MsgTitleUpdated(old, new) == <<"Title updated: ">> \o old \o <<" -> ">> \o new

\* Array.prototype.join(', ')
RECURSIVE JoinTags(_)
JoinTags(tags) ==
    IF tags = <<>> THEN <<>>
    ELSE IF Len(tags) = 1 THEN tags[1]
    ELSE tags[1] \o <<",", " ">> \o JoinTags(Tail(tags))

MsgTagsCurrent(tags) == <<"The tags are already up to date: ">> \o JoinTags(tags)
MsgTagsUpdated(tags) == <<"Tags updated: ">> \o JoinTags(tags)

\* What a failing vault or fileManager call throws.
VaultError == Thrown(<<"vault failure">>)

\* showError
showError(ns, message) == Append(ns, NoticeOf("error", message))

\* showNotification
showNotification(ns, message) ==
    IF settings.enableNotifications THEN Append(ns, NoticeOf("info", message)) ELSE ns

\* The outer catch of a command, for a thrown value
CatchMessage(err) ==
    IF err.isError THEN err.val
    ELSE IF cmd = "title" THEN MsgTitleFailed ELSE MsgTagFailed

\* A comparison that ignores letter case.
titleUnchanged_IgnoreCase(current, new) == ToLowerCase(current) = ToLowerCase(new)

\* A check that never finds the title current.
titleUnchanged_Never(current, new) == FALSE

\* currentTitle === newTitle
titleUnchanged(current, new) == current = new

\* file.parent ? `${file.parent.path}/${newTitle}.md` : `${newTitle}.md`
NewPath(f, title) ==
    IF f.parent # None THEN f.parent[1] \o <<"/">> \o title \o <<".md">>
    ELSE title \o <<".md">>

MaxInvocations == 2

\* A command is invoked: the checks of the credential and of the active file, up
\* to `await this.app.vault.read(file)`.
InvokeCommand(c) ==
    /\ ppc = "idle"
    /\ invocations < MaxInvocations
    /\ invocations' = invocations + 1
    /\ cmd' = c
    /\ cpc' = "idle"
    /\ attempt' = 0
    /\ requests' = 0
    /\ inFlight' = 0
    /\ received' = <<>>
    /\ lastError' = None
    /\ outcome' = NoOutcome
    /\ delays' = <<>>
    /\ progress' = "none"
    /\ generatorCalls' = 0
    /\ promptContent' = <<>>
    /\ contentRead' = None
    /\ currentTitle' = <<>>
    /\ newTitle' = None
    /\ newTags' = None
    /\ currentTags' = None
    /\ renameCalls' = <<>>
    /\ modifyCalls' = <<>>
    /\ prevWritten' = lastWritten
    /\ lastWritten' = None
    /\ IF ~validateApiKey(settings.apiKey)
       THEN /\ notices' = showError(<<>>, MsgBadKey)
            /\ ppc' = "idle"
       ELSE IF ~activeFile
       THEN /\ notices' = showError(<<>>, MsgNoFile)
            /\ ppc' = "idle"
       ELSE /\ notices' = <<>>
            /\ ppc' = "reading"
    /\ UNCHANGED <<settings, vault, activeFile, file>>

\* vault.read settles; validateContent, the progress notice, and the generator
\* up to its `await this.geminiClient.generateContent(prompt, config)`.
ReadContent(ok) ==
    /\ ppc = "reading"
    /\ IF ~ok
       THEN /\ notices' = showError(notices, CatchMessage(VaultError))
            /\ ppc' = "idle"
            /\ UNCHANGED <<contentRead, progress, generatorCalls, promptContent, clientVars>>
       ELSE /\ contentRead' = Some(file.content)
            /\ IF ~validateContent(file.content)
               THEN /\ notices' = showError(notices, MsgEmpty)
                    /\ ppc' = "idle"
                    /\ UNCHANGED <<progress, generatorCalls, promptContent, clientVars>>
               ELSE /\ notices' = Append(notices, NoticeOf("progress",
                                     IF cmd = "title" THEN MsgTitleProgress ELSE MsgTagProgress))
                    /\ progress' = "shown"
                    /\ generatorCalls' = generatorCalls + 1
                    /\ promptContent' =
                          IF cmd = "title" THEN file.content
                          ELSE TagPromptContent(file.content, settings.maxContentLength)
                    /\ StartGenerateContent
                    /\ ppc' = "generating"
    /\ UNCHANGED <<settings, vault, activeFile, file, cmd, invocations, currentTitle, newTitle,
                   newTags, currentTags, renameCalls, modifyCalls, lastWritten, prevWritten>>

\* A catch block that leaves the progress notice as it is.
hideInCatch_Missing(notice) == notice

\* catch (error) { notice.hide(); throw error; }
hideInCatch(notice) == "hidden"

\* generateContent settles and the generator returns or throws: the command runs
\* on to its next await (renameFile, or the vault.read of getTagsFromFrontmatter)
\* or to its end.
GeneratorSettles ==
    /\ ppc = "generating"
    /\ cpc \in {"returned", "thrown"}
    /\ IF outcome.kind = "error"
       THEN /\ progress' = hideInCatch(progress)
            /\ notices' = showError(notices, CatchMessage(outcome))
            /\ ppc' = "idle"
            /\ UNCHANGED <<currentTitle, newTitle, newTags, renameCalls>>
       ELSE IF cmd = "title"
       THEN LET title == TitleFromResponse(outcome.val, settings.maxTitleLength)
            IN  /\ newTitle' = Some(title)
                /\ currentTitle' = file.basename
                /\ UNCHANGED newTags
                /\ IF titleUnchanged(file.basename, title)
                   THEN /\ progress' = "hidden"
                        /\ notices' = showNotification(notices, MsgTitleCurrent(title))
                        /\ ppc' = "idle"
                        /\ UNCHANGED renameCalls
                   ELSE /\ renameCalls' = Append(renameCalls, NewPath(file, title))
                        /\ ppc' = "renaming"
                        /\ UNCHANGED <<progress, notices>>
       ELSE /\ newTags' = Some(TagsFromResponse(outcome.val))
            /\ ppc' = "readingTags"
            /\ UNCHANGED <<currentTitle, newTitle, renameCalls, progress, notices>>
    /\ UNCHANGED <<settings, vault, activeFile, file, cmd, invocations, generatorCalls,
                   promptContent, contentRead, currentTags, modifyCalls, lastWritten,
                   prevWritten, clientVars>>

\* fileManager.renameFile settles; the vault turns down a destination that exists.
RenameSettles(ok) ==
    /\ ppc = "renaming"
    /\ ok => renameCalls[Len(renameCalls)] \notin vault
    /\ progress' = IF ok THEN "hidden" ELSE hideInCatch(progress)
    /\ ppc' = "idle"
    /\ IF ok
       THEN /\ file' = [file EXCEPT !.basename = newTitle[1]]
            /\ notices' = showNotification(notices, MsgTitleUpdated(currentTitle, newTitle[1]))
       ELSE /\ notices' = showError(notices, CatchMessage(VaultError))
            /\ UNCHANGED file
    /\ UNCHANGED <<settings, vault, activeFile, cmd, invocations, generatorCalls, promptContent,
                   contentRead, currentTitle, newTitle, newTags, currentTags, renameCalls,
                   modifyCalls, lastWritten, prevWritten, clientVars>>

\* The vault.read of getTagsFromFrontmatter settles; the idempotency check, and
\* updateTagsInFrontmatter up to its `await this.app.vault.read(file)`.
TagsRead(ok) ==
    /\ ppc = "readingTags"
    /\ IF ~ok
       THEN /\ progress' = hideInCatch(progress)
            /\ notices' = showError(notices, CatchMessage(VaultError))
            /\ ppc' = "idle"
            /\ UNCHANGED currentTags
       ELSE LET tags == getTagsFromFrontmatter(file.content)
            IN  /\ currentTags' = Some(tags)
                /\ IF arraysEqual(tags, newTags[1])
                   THEN /\ progress' = "hidden"
                        /\ notices' = showNotification(notices, MsgTagsCurrent(newTags[1]))
                        /\ ppc' = "idle"
                   ELSE /\ ppc' = "updating"
                        /\ UNCHANGED <<progress, notices>>
    /\ UNCHANGED <<settings, vault, activeFile, file, cmd, invocations, generatorCalls,
                   promptContent, contentRead, currentTitle, newTitle, newTags, renameCalls,
                   modifyCalls, lastWritten, prevWritten, clientVars>>

\* The vault.read of updateTagsInFrontmatter settles; the new content is built
\* and passed to `await this.app.vault.modify(file, newContent)`.
UpdateRead(ok) ==
    /\ ppc = "updating"
    /\ IF ~ok
       THEN /\ progress' = hideInCatch(progress)
            /\ notices' = showError(notices, CatchMessage(VaultError))
            /\ ppc' = "idle"
            /\ UNCHANGED modifyCalls
       ELSE /\ modifyCalls' =
                  Append(modifyCalls, updateTagsInFrontmatter(file.content, newTags[1]))
            /\ ppc' = "modifying"
            /\ UNCHANGED <<progress, notices>>
    /\ UNCHANGED <<settings, vault, activeFile, file, cmd, invocations, generatorCalls,
                   promptContent, contentRead, currentTitle, newTitle, newTags, currentTags,
                   renameCalls, lastWritten, prevWritten, clientVars>>

\* vault.modify settles.
ModifySettles(ok) ==
    /\ ppc = "modifying"
    /\ progress' = IF ok THEN "hidden" ELSE hideInCatch(progress)
    /\ ppc' = "idle"
    /\ IF ok
       THEN /\ file' = [file EXCEPT !.content = modifyCalls[Len(modifyCalls)]]
            /\ lastWritten' = newTags
            /\ notices' = showNotification(notices, MsgTagsUpdated(newTags[1]))
       ELSE /\ notices' = showError(notices, CatchMessage(VaultError))
            /\ UNCHANGED <<file, lastWritten>>
    /\ UNCHANGED <<settings, vault, activeFile, cmd, invocations, generatorCalls, promptContent,
                   contentRead, currentTitle, newTitle, newTags, currentTags, renameCalls,
                   modifyCalls, prevWritten, clientVars>>

-----------------------------------------------------------------------------
(* The notes, credentials and responses of the plugin's state space *)
\* no metadata block
DocPlain == <<"H", "i">>
\* a block holding only tags
DocTagged == <<"-", "-", "-", "\n", "t", "a", "g", "s", ":", "\n", " ", " ", "-", " ", "a", "b", "\n", "-", "-", "-", "\n", "H", "i">>
\* a block with a field before the tags and one after
DocFields == <<"-", "-", "-", "\n", "k", ":", " ", "v", "\n", "t", "a", "g", "s", ":", "\n", " ", " ", "-", " ", "a", "b", "\n", " ", " ", "-", " ", "x", "\n", "m", ":", " ", "w", "\n", "-", "-", "-", "\n", "H", "i">>
\* a block whose tags field is one string
DocScalarTag == <<"-", "-", "-", "\n", "t", "a", "g", "s", ":", " ", "a", "b", "\n", "-", "-", "-", "\n", "H", "i">>
\* a block that is no YAML
DocBroken == <<"-", "-", "-", "\n", "k", ":", " ", "v", ":", " ", "w", "\n", "-", "-", "-", "\n", "H", "i">>
\* a blank line between the block and the body
DocBlankLine == <<"-", "-", "-", "\n", "k", ":", " ", "v", "\n", "-", "-", "-", "\n", "\n", "H", "i">>
\* a field whose value holds dollar signs
DocDollar == <<"-", "-", "-", "\n", "k", ":", " ", "a", "$", "$", "b", "\n", "-", "-", "-", "\n", "H", "i">>
\* a block closed at the end of the file, no newline after it
DocClosedAtEnd == <<"-", "-", "-", "\n", "k", ":", " ", "v", "\n", "-", "-", "-">>
\* an opening delimiter that is never closed
DocUnclosed == <<"-", "-", "-", "\n", "k", ":", " ", "v", "\n", "H", "i">>
\* an empty file
DocEmpty == <<>>
\* a file of whitespace only
DocWhitespace == <<" ", "\n">>
\* delimiters followed by spaces
DocSpaced == <<"-", "-", "-", " ", "\n", "k", ":", " ", "v", "\n", "-", "-", "-", " ", " ", "\n", "H", "i">>
Docs ==
    { DocPlain, DocTagged, DocFields, DocScalarTag,
      DocBroken, DocBlankLine, DocDollar, DocClosedAtEnd,
      DocUnclosed, DocEmpty, DocWhitespace, DocSpaced }

\* A well-formed credential, and credentials validateApiKey is to turn down: none,
\* blank, one character short, a character outside the alphabet, a wrong prefix.
GoodKey == <<"A", "I", "z", "a", "S", "y", "A", "-", "b", "c", "d", "e", "f", "g", "h", "_", "0", "1", "2", "3">>
ApiKeys ==
    { GoodKey, <<>>, <<" ", " ">>, SubSeq(GoodKey, 1, 19),
      SubSeq(GoodKey, 1, 19) \o <<"!">>, <<"B">> \o Tail(GoodKey) }

\* What the service answers in the plugin's runs.
PluginTexts ==
    { <<"a", "b">>, <<"A", "b">>, <<"x", ",", "a", "b">>, <<"$", "$">>, <<" ">>, <<"/">> }
PluginResponses ==
    {OkResponse(t) : t \in PluginTexts}
        \cup { FailResponse(429, 429, SResourceExhausted, <<"q">>, <<"{", "}">>),
               FailResponse(500, 500, SInternal, <<"x">>, <<"{", "}">>) }

\* Another note of the vault, in folder d.
OtherDocument == <<"d", "/", "A", "b", ".md">>

PluginInit ==
    /\ ClientIdle
    /\ NoCall
    /\ TabClosed
    /\ settings \in [apiKey : ApiKeys, enableNotifications : BOOLEAN,
                      maxTitleLength : {40}, maxContentLength : {100}]
    /\ vault = {OtherDocument}
    /\ activeFile \in BOOLEAN
    /\ file \in [basename : {<<"a", "b">>}, parent : {None, Some(<<"d">>)}, content : Docs]
    /\ ppc = "idle"
    /\ cmd = "none"
    /\ invocations = 0
    /\ notices = <<>>
    /\ progress = "none"
    /\ generatorCalls = 0
    /\ promptContent = <<>>
    /\ contentRead = None
    /\ currentTitle = <<>>
    /\ newTitle = None
    /\ newTags = None
    /\ currentTags = None
    /\ renameCalls = <<>>
    /\ modifyCalls = <<>>
    /\ lastWritten = None
    /\ prevWritten = None

PluginNext ==
    \/ UNCHANGED <<callVars, tabVars>> /\ \E c \in {"title", "tags"} : InvokeCommand(c)
    \/ UNCHANGED <<callVars, tabVars>> /\ \E ok \in BOOLEAN : ReadContent(ok)
    \/ ppc = "generating" /\ SendRequest /\ UNCHANGED <<pluginVars, callVars, tabVars>>
    \/ ppc = "generating" /\ UNCHANGED <<pluginVars, callVars, tabVars>>
          /\ \E resp \in PluginResponses : ReceiveResponse(resp)
    \/ ppc = "generating" /\ WakeUp /\ UNCHANGED <<pluginVars, callVars, tabVars>>
    \/ UNCHANGED <<callVars, tabVars>> /\ GeneratorSettles
    \/ UNCHANGED <<callVars, tabVars>> /\ \E ok \in BOOLEAN : RenameSettles(ok)
    \/ UNCHANGED <<callVars, tabVars>> /\ \E ok \in BOOLEAN : TagsRead(ok)
    \/ UNCHANGED <<callVars, tabVars>> /\ \E ok \in BOOLEAN : UpdateRead(ok)
    \/ UNCHANGED <<callVars, tabVars>> /\ \E ok \in BOOLEAN : ModifySettles(ok)

SpecPlugin == PluginInit /\ [][PluginNext]_vars

-----------------------------------------------------------------------------
(* Properties of the commands *)

Blank(c) == \A i \in DOMAIN c : IsSpace(c[i])
Count(list, x) == Cardinality({i \in DOMAIN list : list[i] = x})
SameMultiset(a, b) ==
    /\ Len(a) = Len(b)
    /\ \A x \in Range(a) \cup Range(b) : Count(a, x) = Count(b, x)
Told(message) == \E i \in DOMAIN notices : notices[i] = NoticeOf("info", message)
NoInfo == \A i \in DOMAIN notices : notices[i].kind # "info"
NoError == \A i \in DOMAIN notices : notices[i].kind # "error"
OnlyError(message) == notices = <<NoticeOf("error", message)>>
NothingCalled ==
    /\ generatorCalls = 0
    /\ requests = 0
    /\ renameCalls = <<>>
    /\ modifyCalls = <<>>

\* C5: in either command a credential that is missing or malformed, then a missing
\* active file, then a content that is empty or whitespace only ends the command
\* with the error of that reason alone, the generator never called (no request
\* sent) and neither renameFile nor modify called; the credential is checked
\* before the active file and the active file before the content is read.
C5_ValidationFailsClosed ==
    cmd # "none" =>
        /\ settings.apiKey # GoodKey =>
              /\ ppc = "idle" /\ contentRead = None
              /\ OnlyError(MsgBadKey) /\ NothingCalled
        /\ (settings.apiKey = GoodKey /\ ~activeFile) =>
              /\ ppc = "idle" /\ contentRead = None
              /\ OnlyError(MsgNoFile) /\ NothingCalled
        /\ (settings.apiKey = GoodKey /\ activeFile
                /\ contentRead # None /\ Blank(contentRead[1])) =>
              /\ ppc = "idle"
              /\ OnlyError(MsgEmpty) /\ NothingCalled

C5_Witness ==
    /\ cmd = "tags" /\ ppc = "idle"
    /\ contentRead = Some(DocWhitespace)
    /\ OnlyError(MsgEmpty) /\ generatorCalls = 0

\* The tags the generator gave equal, as multisets, the tags read from the block.
TagsAlreadyCurrent ==
    /\ cmd = "tags"
    /\ newTags # None /\ currentTags # None
    /\ SameMultiset(currentTags[1], newTags[1])

\* C6 as stated: in generateTags, when the generated tags equal the tags of the block
\* whatever their order and counting repetitions, modify is not called in that
\* invocation and the user is told that the tags are already up to date.
C6_EqualTagsSkipAndTell ==
    TagsAlreadyCurrent =>
        /\ modifyCalls = <<>>
        /\ ppc = "idle"
        /\ Told(MsgTagsCurrent(newTags[1]))

\* C6: in generateTags, when the generated tags equal the tags of the block
\* whatever their order and counting repetitions, modify is not called in that
\* invocation; the user is told that the tags are already up to date when
\* notifications are enabled, and is shown nothing when they are disabled.
C6_EqualTagsSkip ==
    TagsAlreadyCurrent =>
        /\ modifyCalls = <<>>
        /\ ppc = "idle"
        /\ settings.enableNotifications => Told(MsgTagsCurrent(newTags[1]))
        /\ ~settings.enableNotifications => NoInfo

C6_Witness ==
    /\ TagsAlreadyCurrent
    /\ currentTags[1] # newTags[1]
    /\ modifyCalls = <<>>
    /\ Told(MsgTagsCurrent(newTags[1]))

TitleCompared == cmd = "title" /\ newTitle # None

\* C7 as stated: in generateTitle the new title is compared with the basename by
\* exact equality; when equal, renameFile is not called and the 'already up to date'
\* notification is issued; when different, in letter case only too, a rename is issued.
C7_TitleCompareAndTell ==
    TitleCompared =>
        /\ newTitle[1] = currentTitle =>
              /\ renameCalls = <<>> /\ ppc = "idle"
              /\ Told(MsgTitleCurrent(newTitle[1]))
        /\ newTitle[1] # currentTitle =>
              renameCalls = <<NewPath([file EXCEPT !.basename = currentTitle], newTitle[1])>>

\* C7: in generateTitle the new title is compared with the basename by exact
\* equality; when equal, renameFile is not called and the 'already up to date'
\* notification is issued if notifications are enabled (nothing is shown if they are
\* disabled); when different, in letter case only too, one rename is issued.
C7_TitleCompare ==
    TitleCompared =>
        /\ newTitle[1] = currentTitle =>
              /\ renameCalls = <<>> /\ ppc = "idle"
              /\ settings.enableNotifications => Told(MsgTitleCurrent(newTitle[1]))
              /\ ~settings.enableNotifications => NoInfo
        /\ newTitle[1] # currentTitle =>
              renameCalls = <<NewPath([file EXCEPT !.basename = currentTitle], newTitle[1])>>

C7_Witness ==
    /\ TitleCompared
    /\ newTitle[1] # currentTitle
    /\ ToLowerCase(newTitle[1]) = ToLowerCase(currentTitle)
    /\ Len(renameCalls) = 1

\* C8: after a generateTags invocation wrote the tags T, in the next generateTags
\* invocation whose generator gives the elements of T again, in any order, the read
\* path yields T, modify is not called, and (notifications enabled) the user is told
\* the tags are already up to date.
C8_TagsIdempotent ==
    (/\ cmd = "tags"
     /\ prevWritten # None
     /\ newTags # None /\ SameMultiset(newTags[1], prevWritten[1])
     /\ currentTags # None) =>
        /\ SameMultiset(currentTags[1], prevWritten[1])
        /\ modifyCalls = <<>>
        /\ ppc = "idle"
        /\ settings.enableNotifications => Told(MsgTagsCurrent(newTags[1]))

\* The fields of a parsed block other than tags, in order.
IsOtherField(f) == f.key # STags
OtherFields(fields) == SelectSeq(fields, IsOtherField)

\* The text after the line of the closing delimiter of the block at the start of c.
TextAfterBlock(c) ==
    LET m == FrontmatterMatch(c, TRUE)
    IN  SubSeq(c, Min(TailEnds(c, m.close)) + 1, Len(c))

\* The text after what frontmatterRegex matches at the start of c.
TextAfterMatch(c) == SubSeq(c, FrontmatterMatch(c, TRUE).end + 1, Len(c))

BlockParses(c) ==
    FrontmatterMatch(c, TRUE).found /\ parseYaml(FrontmatterMatch(c, TRUE).group).ok
BlockUnparsable(c) ==
    FrontmatterMatch(c, TRUE).found /\ ~parseYaml(FrontmatterMatch(c, TRUE).group).ok

\* C9: when the document begins with a block that parses, the document passed to
\* modify begins with a block that holds the old fields other than tags with their
\* old values and tags equal to the new tags, and the text after the block is the
\* text that followed the old block.
C9_OnlyTagsChange ==
    (cmd = "tags" /\ modifyCalls # <<>> /\ BlockParses(contentRead[1])) =>
        LET old == contentRead[1]
            new == modifyCalls[1]
            was == parseYaml(FrontmatterMatch(old, TRUE).group).fields
            now == parseYaml(FrontmatterMatch(new, TRUE).group).fields
        IN  /\ BlockParses(new)
            /\ OtherFields(now) = OtherFields(was)
            /\ HasKey(now, STags)
            /\ FieldOf(now, STags) = ListField(STags, newTags[1])
            /\ TextAfterBlock(new) = TextAfterBlock(old)

\* A block of the tags alone.
FreshBlock(tags) == FrontmatterBlock(stringifyYaml(<<ListField(STags, tags)>>))

\* C10 as stated: when the document begins with a block that does not parse, the
\* document passed to modify is a fresh block of the new tags alone followed by the
\* complete original text, and the command ends without an error.
C10_FallbackKeepsAll ==
    (cmd = "tags" /\ modifyCalls # <<>> /\ BlockUnparsable(contentRead[1])) =>
        /\ modifyCalls[1] = FreshBlock(newTags[1]) \o contentRead[1]
        /\ (ppc = "idle" /\ lastWritten # None) => NoError

\* C10: when the document begins with a block that does not parse, the document
\* passed to modify is a fresh block of the new tags alone followed by the original
\* text without what the frontmatter expression matched (the unparsable block is
\* dropped), and the command ends without an error.
C10_FallbackDropsBlock ==
    (cmd = "tags" /\ modifyCalls # <<>> /\ BlockUnparsable(contentRead[1])) =>
        /\ modifyCalls[1] = FreshBlock(newTags[1]) \o TextAfterMatch(contentRead[1])
        /\ (ppc = "idle" /\ lastWritten # None) => NoError

C10_Witness ==
    /\ cmd = "tags" /\ ppc = "idle"
    /\ lastWritten # None
    /\ BlockUnparsable(contentRead[1])
    /\ file.content = FreshBlock(newTags[1]) \o <<"H", "i">>

\* The path of the folder of f followed by its separator (nothing at the root).
FolderPrefix(f) == IF f.parent # None THEN f.parent[1] \o <<"/">> ELSE <<>>

\* path is prefix, a name without a separator, and the extension.
InFolder(path, prefix) ==
    /\ Len(path) > Len(prefix)
    /\ SubSeq(path, 1, Len(prefix)) = prefix
    /\ path[Len(path)] = ".md"
    /\ \A i \in (Len(prefix) + 1)..(Len(path) - 1) : path[i] \notin {"/", "\\", ".md"}

\* C11: every rename generateTitle issues has its destination in the folder of the
\* document (the parent path kept, the name alone changed), and none is issued
\* toward a path at which another document of the vault exists.
C11_RenameInFolderNoOverwrite ==
    \A i \in DOMAIN renameCalls :
        /\ InFolder(renameCalls[i], FolderPrefix(file))
        /\ renameCalls[i] \notin vault

-----------------------------------------------------------------------------
(* The text utilities called on their own *)

\* The strings over an alphabet up to a length.
StringsOver(alphabet, maxLen) == UNION {[1..n -> alphabet] : n \in 0..maxLen}

PluginUntouched == UNCHANGED <<clientVars, pluginVars, tabVars>>

(* sanitizeTitle and TitleGenerator.generateTitle *)

MaxTitleInput == 4
MaxLimit == 3

ReservedChars == {"/", "\\", ":", "*", "?", "\"", "<", ">", "|"}
TitleChars == {"a", "b", " ", "\n", "/", "|"}
TitleInputs ==
    StringsOver(TitleChars, MaxTitleInput)
        \cup {<<"a", c, "b">> : c \in ReservedChars \cup {"\t", "\r"}}

TitleInit ==
    /\ ClientIdle /\ PluginAtRest
    /\ fn = "none"
    /\ arg \in TitleInputs
    /\ arg2 = <<>>
    /\ num \in 0..MaxLimit
    /\ out = <<>>

CallSanitizeTitle ==
    /\ fn = "none"
    /\ fn' = "sanitizeTitle"
    /\ out' = sanitizeTitle(arg)
    /\ UNCHANGED <<arg, arg2, num>>
    /\ PluginUntouched

\* generateTitle once the client returned arg, with settings.maxTitleLength = num
CallGenerateTitle ==
    /\ fn = "none"
    /\ fn' = "generateTitle"
    /\ out' = TitleFromResponse(arg, num)
    /\ UNCHANGED <<arg, arg2, num>>
    /\ PluginUntouched

TitleNext == CallSanitizeTitle \/ CallGenerateTitle

SpecTitle == TitleInit /\ [][TitleNext]_vars

NoTrailingSpace(s) == s = <<>> \/ ~IsSpace(s[Len(s)])
NoLeadingSpace(s) == s = <<>> \/ ~IsSpace(s[1])

\* C12: the title generateTitle returns is at most maxTitleLength long and ends in
\* no whitespace; it is the sanitized response when that fits, and else the first
\* maxTitleLength characters of the sanitized response, trailing whitespace trimmed.
C12_TitleWithinLimit ==
    fn = "generateTitle" =>
        LET sanitized == sanitizeTitle(arg)
        IN  /\ Len(out) <= num
            /\ NoTrailingSpace(out)
            /\ Len(sanitized) <= num => out = sanitized
            /\ Len(sanitized) > num => out = TrimEnd(SubSeq(sanitized, 1, num))

C12_Witness ==
    /\ fn = "generateTitle"
    /\ Len(sanitizeTitle(arg)) > num
    /\ out # <<>> /\ Len(out) < num

\* C13: the output of sanitizeTitle holds none of / \ : * ? " < > |, no two
\* whitespace characters in a row, no tab and no newline, and neither starts nor
\* ends with whitespace; the empty input gives the empty string.
C13_SanitizedShape ==
    fn = "sanitizeTitle" =>
        /\ \A i \in DOMAIN out : out[i] \notin ReservedChars \cup {"\t", "\n", "\r"}
        /\ \A i \in 1..(Len(out) - 1) : ~(IsSpace(out[i]) /\ IsSpace(out[i + 1]))
        /\ NoLeadingSpace(out) /\ NoTrailingSpace(out)
        /\ arg = <<>> => out = <<>>

C13_Witness ==
    /\ fn = "sanitizeTitle"
    /\ arg = <<"a", "|", "\n", "b">>
    /\ out = <<"a", " ", "b">>

\* C14: sanitizeTitle applied to an output of sanitizeTitle gives that output.
C14_SanitizeIdempotent ==
    fn = "sanitizeTitle" => sanitizeTitle(out) = out

C14_Witness ==
    /\ fn = "sanitizeTitle"
    /\ out # arg /\ out # <<>>
    /\ sanitizeTitle(out) = out

-----------------------------------------------------------------------------
(* normalizeTags *)

MaxTagInput == 5
MaxTagList == 3

TagChars == {"a", "A", "b", "#", " ", ","}
TagStrings == StringsOver(TagChars, MaxTagInput)
TagElements ==
    { <<>>, <<"a">>, <<"A">>, <<"#", "a">>, <<"b", " ", " ", "a">>, <<" ", "b", "\t">> }
TagLists == StringsOver(TagElements, MaxTagList)

\* normalizeTags takes a string or an array.
TagsInit ==
    /\ ClientIdle /\ PluginAtRest
    /\ fn = "none"
    /\ num = 0
    /\ out = <<>>
    /\ \/ arg \in TagStrings /\ arg2 = <<>>
       \/ arg = <<>> /\ arg2 \in TagLists

CallNormalizeTagsString ==
    /\ fn = "none"
    /\ fn' = "normalizeTags(string)"
    /\ out' = normalizeTags(arg)
    /\ UNCHANGED <<arg, arg2, num>>
    /\ PluginUntouched

CallNormalizeTagsArray ==
    /\ fn = "none"
    /\ fn' = "normalizeTags(array)"
    /\ out' = normalizeTagList(arg2)
    /\ UNCHANGED <<arg, arg2, num>>
    /\ PluginUntouched

TagsNext == CallNormalizeTagsString \/ CallNormalizeTagsArray

SpecTags == TagsInit /\ [][TagsNext]_vars

NormalizeTagsCalled == fn \in {"normalizeTags(string)", "normalizeTags(array)"}

\* C15: every element of the output of normalizeTags is lowercase and non-empty and
\* holds no '#' and no whitespace.
C15_TagShape ==
    NormalizeTagsCalled =>
        \A i \in DOMAIN out :
            /\ out[i] # <<>>
            /\ \A k \in DOMAIN out[i] :
                  /\ out[i][k] \notin Range(UpperChars)
                  /\ out[i][k] # "#"
                  /\ ~IsSpace(out[i][k])

\* The elements of the input as normalizeTags takes them.
InputTags == IF fn = "normalizeTags(string)" THEN SplitOn(arg, ",") ELSE arg2
\* Their normalized forms, in the order of the input.
NormalizedForms == [i \in DOMAIN InputTags |-> normalizeTag(InputTags[i])]
FirstAt(list, x) == Min({i \in DOMAIN list : list[i] = x})

\* C16: the output of normalizeTags holds no element twice, holds the non-empty
\* normalized forms of the input and nothing else, and orders them by the place
\* where each first occurs in the input.
C16_DedupeFirstOccurrence ==
    NormalizeTagsCalled =>
        /\ \A i, j \in DOMAIN out : out[i] = out[j] => i = j
        /\ Range(out) = Range(NormalizedForms) \ {<<>>}
        /\ \A i, j \in DOMAIN out :
              i < j => FirstAt(NormalizedForms, out[i]) < FirstAt(NormalizedForms, out[j])

C16_Witness ==
    /\ fn = "normalizeTags(string)"
    /\ arg = <<"a", ",", "b", ",", "A">>
    /\ out = << <<"a">>, <<"b">> >>

-----------------------------------------------------------------------------
(* removeFrontmatter *)

MaxPieces == 6
MaxBodyPieces == 3

RECURSIVE Flatten(_)
Flatten(pieces) == IF pieces = <<>> THEN <<>> ELSE Head(pieces) \o Flatten(Tail(pieces))

TextPieces == {Dashes, NL, <<" ">>, <<"a">>}
\* Any text, a delimiter being one piece.
Texts == {Flatten(p) : p \in StringsOver(TextPieces, MaxPieces)}
Bodies == {Flatten(p) : p \in StringsOver(TextPieces, MaxBodyPieces)}
Rests ==
    { <<>>, <<"a">>, <<" ", "a", "\n">>, <<"\n", "a", " ", "a">>,
      NL \o Dashes \o NL, <<"a">> \o NL \o Dashes \o NL \o <<"a">> }

\* "---\n" + body + "\n---\n" + rest
BuiltDocument(body, rest) == Dashes \o NL \o body \o NL \o Dashes \o NL \o rest

\* arg is the text; arg2 holds the body and the rest it was built from, if it was.
FrontmatterInit ==
    /\ ClientIdle /\ PluginAtRest
    /\ fn = "none"
    /\ num = 0
    /\ out = <<>>
    /\ \/ arg \in Texts /\ arg2 = <<>>
       \/ \E body \in Bodies, rest \in Rests :
             arg = BuiltDocument(body, rest) /\ arg2 = <<body, rest>>

CallRemoveFrontmatter ==
    /\ fn = "none"
    /\ fn' = "removeFrontmatter"
    /\ out' = removeFrontmatter(arg)
    /\ UNCHANGED <<arg, arg2, num>>
    /\ PluginUntouched

FrontmatterNext == CallRemoveFrontmatter

SpecFrontmatter == FrontmatterInit /\ [][FrontmatterNext]_vars

\* C17: removeFrontmatter reduces "---\n" + body + "\n---\n" + rest to rest.trim(),
\* for every body (empty, or holding a line '---', too) and every rest.
C17_RoundTrip ==
    (fn = "removeFrontmatter" /\ arg2 # <<>>) => out = Trim(arg2[2])

\* A delimiter line: --- and then spaces or tabs only.
IsDelimiterLine(line) ==
    /\ Len(line) >= 3
    /\ SubSeq(line, 1, 3) = Dashes
    /\ \A i \in 4..Len(line) : IsSpace(line[i])

\* The text begins with a delimiter line and holds a later delimiter line that a
\* newline follows.
BeginsWithClosedBlock(text) ==
    LET lines == SplitOn(text, "\n")
    IN  /\ Len(lines) >= 3
        /\ IsDelimiterLine(lines[1])
        /\ \E k \in 2..(Len(lines) - 1) : IsDelimiterLine(lines[k])

\* C18 as stated: a text that does not begin with a block closed by a delimiter line
\* and a newline is returned by removeFrontmatter character for character.
C18_NoBlockUnchanged ==
    (fn = "removeFrontmatter" /\ ~BeginsWithClosedBlock(arg)) => out = arg

\* C18: from a text that does not begin with a block closed by a delimiter line and
\* a newline removeFrontmatter removes nothing but the whitespace at its two ends:
\* it returns text.trim(), which is the text itself when that has no outer whitespace.
C18_NoBlockTrimmed ==
    (fn = "removeFrontmatter" /\ ~BeginsWithClosedBlock(arg)) => out = Trim(arg)

C18_Witness ==
    /\ fn = "removeFrontmatter"
    /\ arg = Dashes \o NL \o <<"a">> \o NL \o Dashes
    /\ out = arg

-----------------------------------------------------------------------------
(* arraysEqual *)

MaxArray == 3

ArrayElements == {<<"a">>, <<"b">>, <<>>}
Arrays == StringsOver(ArrayElements, MaxArray)

ArraysInit ==
    /\ ClientIdle /\ PluginAtRest
    /\ fn = "none"
    /\ arg \in Arrays
    /\ arg2 \in Arrays
    /\ num = 0
    /\ out = <<>>

CallArraysEqual ==
    /\ fn = "none"
    /\ fn' = "arraysEqual"
    /\ out' = arraysEqual(arg, arg2)
    /\ UNCHANGED <<arg, arg2, num>>
    /\ PluginUntouched

ArraysNext == CallArraysEqual

SpecArrays == ArraysInit /\ [][ArraysNext]_vars

\* C19: arraysEqual(A, B) is true exactly when A and B hold the same strings the
\* same number of times each, in whatever order; it gives the same for (B, A), and
\* true for (A, A), the empty list included.
C19_MultisetEquality ==
    fn = "arraysEqual" =>
        /\ out = SameMultiset(arg, arg2)
        /\ out = arraysEqual(arg2, arg)
        /\ arg = arg2 => out = TRUE

C19_Witness ==
    /\ fn = "arraysEqual"
    /\ arg = << <<"a">>, <<"a">>, <<"b">> >>
    /\ arg2 = << <<"b">>, <<"a">>, <<"a">> >>
    /\ out = TRUE

-----------------------------------------------------------------------------
(* truncateContent *)

MaxContent == 4
MaxCut == 5

Contents == StringsOver({"a", "b"}, MaxContent)

TruncateInit ==
    /\ ClientIdle /\ PluginAtRest
    /\ fn = "none"
    /\ arg \in Contents
    /\ arg2 = <<>>
    /\ num \in (0 - MaxCut)..MaxCut
    /\ out = <<>>

CallTruncateContent ==
    /\ fn = "none"
    /\ fn' = "truncateContent"
    /\ out' = truncateContent(arg, num)
    /\ UNCHANGED <<arg, arg2, num>>
    /\ PluginUntouched

TruncateNext == CallTruncateContent

SpecTruncate == TruncateInit /\ [][TruncateNext]_vars

\* C20: truncateContent(s, n) is the prefix of s of length min(len(s), n) when
\* n >= 0 and the empty string when n < 0.
C20_TruncatePrefix ==
    fn = "truncateContent" =>
        /\ num >= 0 =>
              /\ Len(out) = Min({Len(arg), num})
              /\ \A i \in DOMAIN out : out[i] = arg[i]
        /\ num < 0 => out = <<>>

C20_Witness ==
    /\ fn = "truncateContent"
    /\ num < 0 /\ Len(arg) + num > 0
    /\ out = <<>>

(***************************************************************************)
(* The settings tab (ui/setting-tab.ts, the class with the debounced       *)
(* validation of the API key).  display() builds the key field; its        *)
(* onChange handler stores the value, awaits saveSettings() and then sets  *)
(* a timer whose callback validates the value the handler captured.        *)
(* Time is abstract: a pending timer may fire at any later step, and the   *)
(* saveSettings() promises settle in any order.                            *)
(***************************************************************************)
MaxInputs == 2
MaxDisplays == 2

\* The values typed into the key field.
KeyInputs == { GoodKey, <<"A", "I">>, <<>> }

\* The settings and documents the tab does not touch.
commandVars == <<vault, activeFile, file, ppc, cmd, invocations, notices, progress,
                 generatorCalls, promptContent, contentRead, currentTitle, newTitle,
                 newTags, currentTags, renameCalls, modifyCalls, lastWritten, prevWritten>>

\* if (this.validationTimeout) clearTimeout(this.validationTimeout)
clearTimeout(pending, handle) ==
    IF handle = None THEN pending ELSE {t \in pending : t.id # handle[1]}

\* cleanup(): the pending timer is cleared, the warning element removed.
cleanup ==
    /\ timers' = clearTimeout(timers, validationTimeout)
    /\ validationTimeout' = None
    /\ validationMessage' = None

\* showValidationWarning(message, settingEl): the old warning is removed and a new one
\* is created in settingEl.parentElement; a field of an earlier display() was detached
\* by containerEl.empty() and has no parent, so that createEl yields undefined.
showValidationWarning(value, attached) ==
    IF attached THEN Some(value) ELSE None

\* The timer callback without the liveness check.
validationCallback_NoMountCheck(mounted, value, message, attached) ==
    IF value # <<>> /\ ~validateApiKey(value)
    THEN showValidationWarning(value, attached)
    ELSE None

\* The timer callback: the value of validationMessage after it ran.
validationCallback(mounted, value, message, attached) ==
    IF ~mounted THEN message
    ELSE IF value # <<>> /\ ~validateApiKey(value)
         THEN showValidationWarning(value, attached)
         ELSE None

display ==
    /\ shown < MaxDisplays
    /\ cleanup
    /\ isMounted' = TRUE
    /\ shown' = shown + 1
    /\ UNCHANGED <<saving, hidden, typed, timerIds, fired>>
    /\ UNCHANGED <<clientVars, pluginVars, callVars>>

hide ==
    /\ isMounted
    /\ isMounted' = FALSE
    /\ cleanup
    /\ hidden' = hidden + 1
    /\ UNCHANGED <<saving, shown, typed, timerIds, fired>>
    /\ UNCHANGED <<clientVars, pluginVars, callVars>>

\* onChange(value) up to `await this.plugin.saveSettings()`.
InputKey(value) ==
    /\ isMounted
    /\ typed < MaxInputs
    /\ typed' = typed + 1
    /\ settings' = [settings EXCEPT !.apiKey = value]
    /\ saving' = saving \cup {[input |-> typed + 1, value |-> value, display |-> shown]}
    /\ UNCHANGED <<isMounted, validationTimeout, validationMessage, timers,
                   shown, hidden, timerIds, fired>>
    /\ UNCHANGED <<clientVars, commandVars, callVars>>

\* The rest of onChange once saveSettings() settled: the previous timer is cleared and
\* a new one set (a rejected save ends the handler).
SaveSettles(h, ok) ==
    /\ h \in saving
    /\ saving' = saving \ {h}
    /\ IF ok
       THEN /\ timerIds' = timerIds + 1
            /\ timers' = clearTimeout(timers, validationTimeout)
                            \cup {[id |-> timerIds + 1, value |-> h.value,
                                   display |-> h.display, hides |-> hidden]}
            /\ validationTimeout' = Some(timerIds + 1)
       ELSE UNCHANGED <<timerIds, timers, validationTimeout>>
    /\ UNCHANGED <<isMounted, validationMessage, shown, hidden, typed, fired>>
    /\ UNCHANGED <<clientVars, pluginVars, callVars>>

\* A pending timer fires and its callback runs.
TimerFires(t) ==
    /\ t \in timers
    /\ timers' = timers \ {t}
    /\ validationMessage' =
          validationCallback(isMounted, t.value, validationMessage, t.display = shown)
    /\ fired' = Some([value |-> t.value, mounted |-> isMounted, hides |-> t.hides,
                      key |-> settings.apiKey, before |-> validationMessage,
                      after |-> validationMessage'])
    /\ UNCHANGED <<isMounted, validationTimeout, saving, shown, hidden, typed, timerIds>>
    /\ UNCHANGED <<clientVars, pluginVars, callVars>>

TabInit == ClientIdle /\ PluginAtRest /\ NoCall

TabNext ==
    \/ display
    \/ hide
    \/ \E value \in KeyInputs : InputKey(value)
    \/ \E h \in saving : SaveSettles(h, TRUE)
    \/ \E h \in saving : SaveSettles(h, FALSE)
    \/ \E t \in timers : TimerFires(t)

SpecSettingTab == TabInit /\ [][TabNext]_vars

\* The key is one validateApiKey rejects and the callback warns about.
IsBadKey(value) == value # <<>> /\ ~validateApiKey(value)

\* C21: once hide() was called, no callback set before it acts: no timer set before the
\* latest hide() is pending, no callback set before a hide() runs after it, the
\* unmounted tab shows no warning, and a callback that runs while the tab is
\* unmounted leaves the warning state as it found it.
C21_UnmountedCallbackInert ==
    /\ \A t \in timers : t.hides = hidden
    /\ ~isMounted => validationMessage = None
    /\ fired # None => (~fired[1].mounted => fired[1].after = fired[1].before)

\* A callback for a key that deserves a warning ran while the tab was unmounted, set by
\* a handler that was still awaiting saveSettings() when hide() was called.
C21_Witness ==
    /\ fired # None
    /\ ~fired[1].mounted
    /\ IsBadKey(fired[1].value)
    /\ fired[1].hides > 0

\* C28: at most one validation timer is pending, and a callback that runs while the
\* tab is mounted judges the key then stored in plugin.settings.apiKey.
C28_OneTimerLatestKey ==
    /\ Cardinality(timers) <= 1
    /\ fired # None => (fired[1].mounted => fired[1].value = fired[1].key)

-----------------------------------------------------------------------------
(* The commands and the document store *)

\* The mutating calls the invocation made on the document store.
MutatingCalls == Len(renameCalls) + Len(modifyCalls)

\* The invocation ended before it called its generator.
AbortedInValidation == ppc = "idle" /\ invocations > 0 /\ generatorCalls = 0

\* The generator of the invocation threw.
GenerationFailed == ppc \notin {"reading", "generating"} /\ outcome.kind = "error"

\* The idempotence check of the invocation found nothing to change.
SkippedAsCurrent ==
    \/ TagsAlreadyCurrent
    \/ TitleCompared /\ newTitle[1] = currentTitle

\* C22: an invocation makes at most one mutating call on the document store: one
\* renameFile (title) or one modify (tags) once it applies its result, none when it
\* aborted in validation, failed in generation or was skipped by the idempotence
\* check; a title invocation never calls modify, a tag invocation never renameFile.
C22_AtMostOneMutation ==
    /\ MutatingCalls <= 1
    /\ cmd = "title" => modifyCalls = <<>>
    /\ cmd = "tags" => renameCalls = <<>>
    /\ ppc = "renaming" => Len(renameCalls) = 1
    /\ ppc = "modifying" => Len(modifyCalls) = 1
    /\ (AbortedInValidation \/ GenerationFailed \/ SkippedAsCurrent) => MutatingCalls = 0

\* A second invocation, of the tag command, that applied its tags, after a first one
\* that left the store alone or not.
C22_Witness ==
    /\ invocations = 2
    /\ cmd = "tags"
    /\ ppc = "idle"
    /\ lastWritten # None
    /\ Len(modifyCalls) = 1
    /\ renameCalls = <<>>

-----------------------------------------------------------------------------
(* The client's delays, transport failures and termination *)

\* The rate-limit failures among the first maxRetries responses of the call.
RetriedFailures ==
    {i \in 1..Len(received) : i <= maxRetries /\ IsRateLimitCondition(received[i])}

\* C23: the delay after the rate-limit failure of attempt i (0-based, i < 3) is
\* 10000 * 2^i ms; no request is issued while a delay is pending; and no delay is
\* taken before the first request, after a success, after a failure that is no
\* rate-limit condition, or after the failure of the 4th request.
C23_BackoffDelays ==
    /\ \A i \in 1..Len(delays) : delays[i] = 10000 * (2 ^ (i - 1))
    /\ Len(delays) = Cardinality(RetriedFailures)
    /\ requests <= Len(delays) + 1
    /\ cpc = "sleep" => (requests = Len(delays) /\ inFlight = 0)
    /\ received = <<>> => delays = <<>>

\* requestUrl itself threw: there is no HTTP response.
IsTransportFailure(resp) == resp.thrown # "none"

\* The message of the thrown Error mentions a rate limit.
MentionsRateLimit(resp) ==
    Includes(resp.throwMsg, S429) \/ Includes(resp.throwMsg, SResourceExhausted)

\* C24 as stated: when requestUrl throws, whatever the value, the call makes exactly
\* one request, does not retry, and raises the generic connectivity message.
C24_TransportGeneric ==
    (Len(received) = 1 /\ IsTransportFailure(received[1]))
        => /\ cpc = "thrown"
           /\ requests = 1
           /\ outcome = Thrown(NetworkFailureMessage)

\* C24: when requestUrl throws a value that is no Error, the call makes exactly one
\* request, does not retry, and raises the generic connectivity message; when it
\* throws an Error, that Error is raised as it is, after exactly one request, unless
\* its message holds '429' or 'RESOURCE_EXHAUSTED', in which case the failure is
\* taken for a rate limit: the call sleeps and sends a further request.
C24_TransportFailure ==
    (Len(received) = 1 /\ IsTransportFailure(received[1]))
        => /\ received[1].thrown = "other"
                 => /\ cpc = "thrown"
                    /\ requests = 1
                    /\ outcome = Thrown(NetworkFailureMessage)
           /\ (received[1].thrown = "error" /\ ~MentionsRateLimit(received[1]))
                 => /\ cpc = "thrown"
                    /\ requests = 1
                    /\ outcome = Thrown(received[1].throwMsg)
           /\ (received[1].thrown = "error" /\ MentionsRateLimit(received[1]))
                 => /\ CallRunning
                    /\ delays = <<initialRetryDelay>>
                    /\ requests \in {1, 2}

\* requestUrl threw an Error, and the call has thrown that Error after one request.
C24_Witness ==
    /\ Len(received) = 1
    /\ received[1].thrown = "error"
    /\ ~MentionsRateLimit(received[1])
    /\ cpc = "thrown"
    /\ requests = 1
    /\ outcome.val = received[1].throwMsg
    /\ outcome.val # NetworkFailureMessage

-----------------------------------------------------------------------------
(* TagGenerator.generateTags on its own: the content it embeds in the prompt, the  *)
(* text generateContent resolves with, the tags it returns.                       *)

MaxPrompt == 3

\* What generateContent resolves with.
TagTexts == { <<"a", ",", "#", "B">>, <<" ">> }

\* arg is the content (arg2 the body and the rest it was built from, if it was), num
\* is settings.maxContentLength.
TagGeneratorInit ==
    /\ ClientIdle /\ PluginAtRest
    /\ fn = "none"
    /\ num \in 0..MaxPrompt
    /\ out = <<>>
    /\ \/ arg \in Bodies /\ arg2 = <<>>
       \/ \E body \in Bodies, rest \in Rests :
             arg = BuiltDocument(body, rest) /\ arg2 = <<body, rest>>

\* generateTags up to `await this.geminiClient.generateContent(prompt, config)`.
CallGenerateTags ==
    /\ fn = "none"
    /\ fn' = "generateContent"
    /\ out' = <<TagPromptContent(arg, num)>>
    /\ UNCHANGED <<arg, arg2, num>>
    /\ PluginUntouched

\* generateContent resolved with generatedTags; generateTags returns `normalized`.
GenerateTagsReturns(generatedTags) ==
    /\ fn = "generateContent"
    /\ fn' = "generateTags"
    /\ out' = out \o <<generatedTags, normalizeTags(generatedTags)>>
    /\ UNCHANGED <<arg, arg2, num>>
    /\ PluginUntouched

TagGeneratorNext ==
    \/ CallGenerateTags
    \/ \E generatedTags \in TagTexts : GenerateTagsReturns(generatedTags)

SpecTagGenerator == TagGeneratorInit /\ [][TagGeneratorNext]_vars

\* No line of the body is a delimiter line.
WellFormedBody(body) ==
    \A k \in DOMAIN SplitOn(body, "\n") : ~IsDelimiterLine(SplitOn(body, "\n")[k])

\* The text comes from the rest alone: the start of a trimmed tail of the rest.
FromRestOnly(text, rest, maxLength) ==
    \E k \in 0..Len(rest) :
        text = truncateContent(Trim(SubSeq(rest, k + 1, Len(rest))), maxLength)

\* C25: generateTags applies removeFrontmatter, truncateContent(maxContentLength),
\* generateContent and normalizeTags in this order, each to the result of the one
\* before: the content of the prompt is at most maxContentLength long and, for a
\* document with a well-formed leading block, holds no text of the block; the tags
\* returned are the normalized response.
C25_TagPipeline ==
    /\ fn \in {"generateContent", "generateTags"} =>
          /\ out[1] = truncateContent(removeFrontmatter(arg), num)
          /\ Len(out[1]) <= num
          /\ (arg2 # <<>> /\ WellFormedBody(arg2[1])) => FromRestOnly(out[1], arg2[2], num)
    /\ fn = "generateTags" => out[3] = normalizeTags(out[2])

\* A document whose block is longer than maxContentLength and whose rest was cut.
C25_Witness ==
    /\ fn = "generateTags"
    /\ arg2 # <<>> /\ WellFormedBody(arg2[1]) /\ arg2[1] # <<>>
    /\ Len(Trim(arg2[2])) > num
    /\ Len(out[1]) = num /\ num > 0
    /\ out[3] # <<>>

-----------------------------------------------------------------------------
(* The two frontmatter expressions of the tag command *)

\* getTagsFromFrontmatter finds a block at the start of c.
ReadPathFindsBlock(c) == FrontmatterMatch(c, FALSE).found

\* updateTagsInFrontmatter finds a block at the start of c.
WritePathFindsBlock(c) == FrontmatterMatch(c, TRUE).found

\* C26: the read path and the write path of the tag command agree on whether the
\* document begins with a block, and a document the read path found a block in (one
\* closed by '---' at the very end of the file too) is not written back whole behind
\* a second, prepended block.
C26_PathsAgree ==
    (cmd = "tags" /\ currentTags # None /\ modifyCalls # <<>>) =>
        /\ ReadPathFindsBlock(contentRead[1]) <=> WritePathFindsBlock(contentRead[1])
        /\ ReadPathFindsBlock(contentRead[1]) =>
              modifyCalls[1] # FreshBlock(newTags[1]) \o contentRead[1]

-----------------------------------------------------------------------------
(* The title a document is renamed to *)

\* C27: generateTitle never renames a document to an empty title: whenever
\* renameFile is called, whatever the remote service answered, the new title is a
\* non-empty string.
C27_NoEmptyTitle ==
    (cmd = "title" /\ renameCalls # <<>>) =>
        /\ newTitle # None
        /\ newTitle[1] # <<>>
        /\ renameCalls[1] # NewPath(file, <<>>)

-----------------------------------------------------------------------------
(* The progress notice *)

\* C29: once a command has shown its progress notice, the notice is hidden before the
\* invocation ends, on every path: change applied, skipped as already current,
\* generator error, failure of the rename or of the document read or write.
C29_ProgressHidden ==
    /\ ppc = "idle" => progress \in {"none", "hidden"}
    /\ (ppc = "idle" /\ generatorCalls > 0) => progress = "hidden"
    /\ ppc \notin {"idle", "reading"} => progress = "shown"

\* The write of the document failed and the notice is hidden.
C29_Witness ==
    /\ cmd = "tags"
    /\ ppc = "idle"
    /\ modifyCalls # <<>>
    /\ lastWritten = None
    /\ progress = "hidden"

-----------------------------------------------------------------------------
(* The client under fair scheduling: the runtime resumes generateContent when its  *)
(* request or its sleep has settled, and every request and every sleep settles.    *)

\* A step of the running call.
ClientProgress ==
    \/ SendRequest /\ UNCHANGED <<pluginVars, callVars, tabVars>>
    \/ \E resp \in ClientResponses : ReceiveResponse(resp) /\ UNCHANGED <<pluginVars, callVars, tabVars>>
    \/ WakeUp /\ UNCHANGED <<pluginVars, callVars, tabVars>>

SpecClientFair == ClientInit /\ [][ClientNext]_vars /\ WF_vars(ClientProgress)

\* C30: the requests of one generateContent call are issued one after another (never
\* two in flight), there are never more than 4 of them, and, every request and every
\* delay completing, the call ends with a returned text or a raised error.
C30_SequentialBoundedTerminates ==
    /\ [](/\ inFlight <= 1
          /\ requests <= 4
          /\ requests = Len(received) + inFlight
          /\ (inFlight = 1 <=> cpc = "awaiting"))
    /\ (CallRunning ~> cpc \in {"returned", "thrown"})

\* The fourth request of a call was answered with a text and the call returned.
C30_Witness ==
    /\ requests = 4
    /\ Len(delays) = 3
    /\ inFlight = 0
    /\ cpc = "returned"
    /\ outcome.kind = "text"
====
